---- MODULE Spec2Model ----
(***************************************************************************)
(* Model of pubmed_search_mcp_server.py: the two tools search_pubmed and   *)
(* format_paper_details, and the parser parse_article_details.             *)
(*                                                                         *)
(* Python strings are TLA+ strings where the code only concatenates them   *)
(* (queries, request parameters, links) and tuples of one-character        *)
(* strings where the code looks inside them (the text of XML elements,     *)
(* which str.strip() trims).  Str turns the second form into the first.    *)
(* The write to the log file at line 57 is a write-only sink that no tool  *)
(* reads back; it is not part of the state.                                *)
(***************************************************************************)
EXTENDS Integers, Sequences, FiniteSets, TLC

\* ---------------------------------------------------------------- bounds
\* Longest keyword list and longest author list given to search_pubmed.
MaxTerms == 2
\* Longest identifier list the search endpoint answers with.
MaxIds == 3
\* Most PubmedArticle elements in a fetch document.
MaxArticles == 2
\* Most Author elements in one article.
MaxAuthors == 2
\* Number of concurrent invocations of search_pubmed.
NumCalls == 2

\* ------------------------------------------------------- python helpers
\* sep.join(parts) for a list of strings
RECURSIVE Join(_, _)
Join(parts, sep) ==
    IF parts = <<>> THEN ""
    ELSE IF Len(parts) = 1 THEN parts[1]
    ELSE parts[1] \o sep \o Join(Tail(parts), sep)

\* The str made of the characters cs.
RECURSIVE Str(_)
Str(cs) == IF cs = <<>> THEN "" ELSE cs[1] \o Str(Tail(cs))

\* What a call produced: a returned value or a raised exception (its str()).
Return(v) == [raised |-> FALSE, value |-> v]
Raise(msg) == [raised |-> TRUE, error |-> msg]

BASE_URL == "https://eutils.ncbi.nlm.nih.gov/entrez/eutils"

\* ---------------------------------------------------- search_pubmed, 38-66
AuthorTerm(author) == author \o "[Author]"
KeywordTerm(keyword) == keyword \o "[Title/Abstract]"
\* the list comprehensions of lines 41 and 45
AuthorTerms(authors) == [k \in 1..Len(authors) |-> AuthorTerm(authors[k])]
KeywordTerms(keywords) == [k \in 1..Len(keywords) |-> KeywordTerm(keywords[k])]

\* Mutant of QueryParts: the keyword clause is appended before the author clause.
QueryPartsKeywordsFirst(title_abstract_keywords, authors) ==
    (IF title_abstract_keywords # <<>>
        THEN << "(" \o Join(KeywordTerms(title_abstract_keywords), " OR ") \o ")" >>
        ELSE <<>>)
    \o
    (IF authors # <<>>
        THEN << "(" \o Join(AuthorTerms(authors), " OR ") \o ")" >>
        ELSE <<>>)

\* lines 38-46: the list query_parts
QueryParts(title_abstract_keywords, authors) ==
    (IF authors # <<>>
        THEN << "(" \o Join(AuthorTerms(authors), " OR ") \o ")" >>
        ELSE <<>>)
    \o
    (IF title_abstract_keywords # <<>>
        THEN << "(" \o Join(KeywordTerms(title_abstract_keywords), " OR ") \o ")" >>
        ELSE <<>>)

\* Mutant of BuildQuery: both clauses are built without the tests of lines 40 and 44.
BuildQueryUnguarded(title_abstract_keywords, authors) ==
    "(" \o Join(AuthorTerms(authors), " OR ") \o ") AND ("
        \o Join(KeywordTerms(title_abstract_keywords), " OR ") \o ")"

\* line 48
BuildQuery(title_abstract_keywords, authors) ==
    LET query_parts == QueryParts(title_abstract_keywords, authors)
    IN  IF query_parts # <<>> THEN Join(query_parts, " AND ") ELSE ""

\* lines 51-55
NoParamsEnvelope ==
    [success |-> FALSE,
     error |-> "No search parameters provided. Please specify authors or keywords.",
     results |-> <<>>]

\* lines 59-65: the request requests.get sends at line 66
SearchRequest(query, num_results) ==
    [url |-> BASE_URL \o "/esearch.fcgi",
     params |-> [db |-> "pubmed", term |-> query,
                 retmax |-> num_results, retmode |-> "json"]]

\* lines 38-66: either the early return, or the search request that is sent
SearchPrologue(title_abstract_keywords, authors, num_results) ==
    LET query == BuildQuery(title_abstract_keywords, authors)
    IN  IF query = ""
        THEN [returned |-> TRUE, envelope |-> NoParamsEnvelope]
        ELSE [returned |-> FALSE, request |-> SearchRequest(query, num_results)]

\* ------------------------------------------------ JSON (response.json())
\* A decoded JSON value: an object is a function from its keys to values.
JObject(f) == [t |-> "dict", v |-> f]
JArray(s) == [t |-> "list", v |-> s]
JString(s) == [t |-> "str", v |-> s]
JNull == [t |-> "NoneType", v |-> <<>>]
EmptyObject == JObject(<<>>)

\* Mutant of DictGet: d[key], which raises KeyError when the key is missing.
DictIndex(d, key, default) ==
    IF d.t # "dict" THEN Raise("'" \o d.t \o "' object is not subscriptable")
    ELSE IF key \in DOMAIN d.v THEN Return(d.v[key])
    ELSE Raise("'" \o key \o "'")

\* d.get(key, default): only a dict has the method
DictGet(d, key, default) ==
    IF d.t = "dict"
    THEN Return(IF key \in DOMAIN d.v THEN d.v[key] ELSE default)
    ELSE Raise("'" \o d.t \o "' object has no attribute 'get'")

\* search_response.json(), line 67
DecodeJson(body) ==
    IF body.json THEN Return(body.value)
    ELSE Raise("Expecting value: line 1 column 1 (char 0)")

\* Mutant of ExtractPmids: a body that cannot be decoded counts as no identifiers.
ExtractPmidsLenient(body) ==
    IF ~body.json THEN Return(JArray(<<>>))
    ELSE LET esearchresult == DictGet(body.value, "esearchresult", EmptyObject)
         IN  IF esearchresult.raised THEN esearchresult
             ELSE DictGet(esearchresult.value, "idlist", JArray(<<>>))

\* lines 67-68: search_data, then pmids
ExtractPmids(body) ==
    LET search_data == DecodeJson(body)
    IN  IF search_data.raised THEN search_data
        ELSE LET esearchresult == DictGet(search_data.value, "esearchresult", EmptyObject)
             IN  IF esearchresult.raised THEN esearchresult
                 ELSE DictGet(esearchresult.value, "idlist", JArray(<<>>))

\* ------------------------------------------- format_paper_details, 99-106
\* ",".join(pubmed_ids), line 102
JoinIds(pubmed_ids) ==
    IF pubmed_ids.t # "list" THEN Raise("can only join an iterable")
    ELSE IF \E k \in 1..Len(pubmed_ids.v) : pubmed_ids.v[k].t # "str"
    THEN LET k == CHOOSE j \in 1..Len(pubmed_ids.v) :
                     /\ pubmed_ids.v[j].t # "str"
                     /\ \A h \in 1..(j-1) : pubmed_ids.v[h].t = "str"
         IN  Raise("sequence item " \o ToString(k-1) \o ": expected str instance, "
                   \o pubmed_ids.v[k].t \o " found")
    ELSE Return(Join([k \in 1..Len(pubmed_ids.v) |-> pubmed_ids.v[k].v], ","))

\* lines 99-104: the request requests.get sends at line 105
FetchRequest(pubmed_ids) ==
    LET id == JoinIds(pubmed_ids)
    IN  IF id.raised THEN id
        ELSE Return([url |-> BASE_URL \o "/efetch.fcgi",
                     params |-> [db |-> "pubmed", id |-> id.value, retmode |-> "xml"]])

\* ------------------------------------------------ XML (ElementTree)
\* An element: tag, attributes (name/value pairs), text (a tuple of
\* characters, empty when the element has none) and children in order.
El(tag, attrs, text, children) ==
    [tag |-> tag, attrs |-> attrs, text |-> text, children |-> children]

\* All elements below the elements of ns, in document order.
RECURSIVE DescendantsOf(_)
DescendantsOf(ns) ==
    IF ns = <<>> THEN <<>>
    ELSE <<ns[1]>> \o DescendantsOf(ns[1].children) \o DescendantsOf(Tail(ns))

\* One step of a path: a tag, and the attribute values a predicate requires.
Step(tag) == [tag |-> tag, attrs |-> {}]
StepAttr(tag, name, value) == [tag |-> tag, attrs |-> {<<name, value>>}]
StepMatches(n, step) == n.tag = step.tag /\ step.attrs \subseteq n.attrs

\* The children of the elements of ns that match step, in document order.
RECURSIVE ChildrenMatching(_, _)
ChildrenMatching(ns, step) ==
    IF ns = <<>> THEN <<>>
    ELSE SelectSeq(ns[1].children, LAMBDA c : StepMatches(c, step))
         \o ChildrenMatching(Tail(ns), step)

RECURSIVE FollowSteps(_, _)
FollowSteps(ns, steps) ==
    IF steps = <<>> THEN ns
    ELSE FollowSteps(ChildrenMatching(ns, Head(steps)), Tail(steps))

\* element.findall(".//a/b/c") for steps <<a, b, c>>
FindAllDeep(element, steps) ==
    FollowSteps(SelectSeq(DescendantsOf(element.children),
                          LAMBDA d : StepMatches(d, Head(steps))),
                Tail(steps))

\* element.findall("a")
FindAllChild(element, steps) == FollowSteps(<<element>>, steps)

\* Mutant of FirstText: findtext without its default.
FirstTextOrEmpty(matches, default) ==
    IF matches = <<>> THEN <<>> ELSE matches[1].text

\* element.findtext(path, default): the first match's text, "" when it has none
FirstText(matches, default) ==
    IF matches = <<>> THEN default ELSE matches[1].text

Whitespace == {" ", "\t", "\n"}

\* str.strip()
RECURSIVE LStrip(_)
LStrip(cs) ==
    IF cs # <<>> /\ cs[1] \in Whitespace THEN LStrip(Tail(cs)) ELSE cs
RECURSIVE RStrip(_)
RStrip(cs) ==
    IF cs # <<>> /\ cs[Len(cs)] \in Whitespace
    THEN RStrip(SubSeq(cs, 1, Len(cs) - 1)) ELSE cs
Strip(cs) == RStrip(LStrip(cs))

\* -------------------------------------------- parse_article_details, 108-143
NA == <<"N", "/", "A">>

\* lines 125-127
AuthorName(author) ==
    LET lastname == FirstText(FindAllChild(author, <<Step("LastName")>>), <<>>)
        initials == FirstText(FindAllChild(author, <<Step("Initials")>>), <<>>)
    IN  Str(Strip(lastname \o <<" ">> \o initials))

\* lines 114-141: the record of one article
ArticleRecord(article) ==
    LET title == FirstText(FindAllDeep(article, <<Step("ArticleTitle")>>), NA)
        abstract == FirstText(FindAllDeep(article, <<Step("Abstract"), Step("AbstractText")>>), NA)
        journal == FirstText(FindAllDeep(article, <<Step("Journal"), Step("Title")>>), NA)
        volume == FirstText(FindAllDeep(article,
                      <<Step("Journal"), Step("JournalIssue"), Step("Volume")>>), NA)
        issue == FirstText(FindAllDeep(article,
                      <<Step("Journal"), Step("JournalIssue"), Step("Issue")>>), NA)
        pages == FirstText(FindAllDeep(article, <<Step("Pagination"), Step("MedlinePgn")>>), NA)
        doi == FirstText(FindAllDeep(article, <<StepAttr("ELocationID", "EIdType", "doi")>>), NA)
        pubdate == FirstText(FindAllDeep(article, <<Step("PubDate"), Step("Year")>>), NA)
        author_elements == FindAllDeep(article, <<Step("Author")>>)
        authors == [k \in 1..Len(author_elements) |-> AuthorName(author_elements[k])]
        pmid == FirstText(FindAllDeep(article, <<Step("PMID")>>), NA)
    IN  [pubmed_id |-> Str(pmid),
         link |-> "https://pubmed.ncbi.nlm.nih.gov/" \o Str(pmid),
         title |-> Str(title),
         authors |-> authors,
         source |-> Str(journal),
         volume |-> Str(volume),
         issue |-> Str(issue),
         pages |-> Str(pages),
         doi |-> Str(doi),
         pubdate |-> Str(pubdate),
         abstract |-> Str(abstract)]

\* lines 109-143; content is what the fetch endpoint sent: markup that
\* ET.fromstring parses to a root element, or anything else
parse_article_details(xml_content) ==
    IF ~xml_content.xml THEN Raise("syntax error: line 1, column 0")
    ELSE LET root == xml_content.root
             articles == FindAllDeep(root, <<Step("PubmedArticle")>>)
         IN  Return([k \in 1..Len(articles) |-> ArticleRecord(articles[k])])

\* Mutant of FormatEpilogue: failures are swallowed and no records returned.
FormatEpilogueSwallowing(fetch_response) ==
    IF ~fetch_response.ok THEN Return(<<>>)
    ELSE IF ~fetch_response.content.xml THEN Return(<<>>)
    ELSE parse_article_details(fetch_response.content)

\* lines 105-106: what format_paper_details does with the fetch outcome
FormatEpilogue(fetch_response) ==
    IF ~fetch_response.ok THEN Raise(fetch_response.error)
    ELSE parse_article_details(fetch_response.content)

\* ---------------------------------------------------- search_pubmed, 66-83
\* Mutant of SuccessEnvelope: total_results counts the records.
SuccessEnvelopeCountingRecords(formatted_results, pmids) ==
    [success |-> TRUE, results |-> formatted_results,
     total_results |-> Len(formatted_results)]

\* lines 72-76
SuccessEnvelope(formatted_results, pmids) ==
    [success |-> TRUE, results |-> formatted_results, total_results |-> Len(pmids.v)]

\* Mutant of ExceptEnvelope: the handler leaves the results key out.
ExceptEnvelopeWithoutResults(e) == [success |-> FALSE, error |-> e]

\* lines 78-83
ExceptEnvelope(e) == [success |-> FALSE, error |-> e, results |-> <<>>]

\* ------------------------------------------------ the remote endpoints
\* What requests.get produces: an exception, or a response with a body.
NetworkError == [ok |-> FALSE, error |-> "Connection refused"]
SearchBody(value) == [ok |-> TRUE, body |-> [json |-> TRUE, value |-> value]]
NotJsonBody == [ok |-> TRUE, body |-> [json |-> FALSE]]
FetchBody(root) == [ok |-> TRUE, content |-> [xml |-> TRUE, root |-> root]]
NotXmlBody == [ok |-> TRUE, content |-> [xml |-> FALSE]]

IdList(n) == JArray([k \in 1..n |-> JString(ToString(k))])
ESearchResult(idlist) == JObject([esearchresult |-> JObject([idlist |-> idlist])])

\* The answers of esearch.fcgi.  The endpoint is not bound by retmax here:
\* nothing in the client checks that it honoured the parameter.
SearchResponses ==
    <<NetworkError, NotJsonBody,
      SearchBody(JArray(<<>>)),
      SearchBody(EmptyObject),
      SearchBody(JObject([esearchresult |-> EmptyObject])),
      SearchBody(ESearchResult(JArray(<<JNull>>)))>>
    \o [n \in 1..(MaxIds + 1) |-> SearchBody(ESearchResult(IdList(n - 1)))]

\* An article of a fetch document, described by what it contains: each
\* scalar is <<>> (element absent) or <<text>>; authors lists, per Author
\* element, its LastName and Initials in the same form.
Opt(tag, o) == IF o = <<>> THEN <<>> ELSE <<El(tag, {}, o[1], <<>>)>>
Wrap(tag, children) == IF children = <<>> THEN <<>> ELSE <<El(tag, {}, <<>>, children)>>

MkAuthor(a) == El("Author", {}, <<>>, Opt("LastName", a.last) \o Opt("Initials", a.init))

\* The layout of a PubmedArticle in efetch's XML.  DateRevised/Year, the
\* pii ELocationID and OtherAbstract/AbstractText are always there: they are
\* the elements the parser's paths must not pick up.
MkArticle(o) ==
    El("PubmedArticle", {}, <<>>, <<
       El("MedlineCitation", {}, <<>>,
          Opt("PMID", o.pmid)
          \o <<El("DateRevised", {}, <<>>, <<El("Year", {}, <<"1","9">>, <<>>)>>)>>
          \o <<El("Article", {}, <<>>,
                 Wrap("Journal",
                      Wrap("JournalIssue",
                           Opt("Volume", o.volume) \o Opt("Issue", o.issue)
                           \o Wrap("PubDate", Opt("Year", o.year)))
                      \o Opt("Title", o.journal))
                 \o Opt("ArticleTitle", o.title)
                 \o Wrap("Pagination", Opt("MedlinePgn", o.pages))
                 \o <<El("ELocationID", {<<"EIdType", "pii">>}, <<"S">>, <<>>)>>
                 \o (IF o.doi = <<>> THEN <<>>
                     ELSE <<El("ELocationID", {<<"EIdType", "doi">>}, o.doi[1], <<>>)>>)
                 \o Wrap("Abstract", Opt("AbstractText", o.abstract))
                 \o Wrap("AuthorList", [k \in 1..Len(o.authors) |-> MkAuthor(o.authors[k])]))>>
          \o <<El("OtherAbstract", {}, <<>>, <<El("AbstractText", {}, <<"O">>, <<>>)>>)>>),
       El("PubmedData", {}, <<>>, <<>>) >>)

MkDocument(os) == El("PubmedArticleSet", {}, <<>>, [k \in 1..Len(os) |-> MkArticle(os[k])])

ScalarFields == {"pmid", "title", "abstract", "journal", "volume", "issue",
                 "pages", "doi", "year"}
FieldText(f) ==
    CASE f = "pmid" -> <<"4", "2">>
      [] f = "title" -> <<"T">>
      [] f = "abstract" -> <<"A">>
      [] f = "journal" -> <<"J">>
      [] f = "volume" -> <<"7">>
      [] f = "issue" -> <<"3">>
      [] f = "pages" -> <<"1", "-", "9">>
      [] f = "doi" -> <<"1", "0", ".", "1">>
      [] f = "year" -> <<"2", "0">>

\* The article whose scalar elements are those of present, with authors as.
ArticleWith(present, as) ==
    [f \in ScalarFields |-> IF f \in present THEN <<FieldText(f)>> ELSE <<>>]
    @@ [authors |-> as]

\* An article whose elements are all there and all without text.
EmptyTextArticle ==
    [f \in ScalarFields |-> << <<>> >>]
    @@ [authors |-> << [last |-> << <<>> >>, init |-> << <<>> >>] >>]

AuthorChoices ==
    {[last |-> l, init |-> n] : l \in {<<>>, << <<"D", "o", "e">> >>},
                                n \in {<<>>, << <<"J", "P">> >>}}

SeqsUpTo(S, n) == UNION {[1..k -> S] : k \in 0..n}

\* The k-th article of a plain document: complete, one author, its own PMID.
PlainArticle(k) ==
    [ArticleWith(ScalarFields, << [last |-> << <<"D", "o", "e">> >>,
                                   init |-> << <<"J", "P">> >>] >>)
        EXCEPT !.pmid = << <<ToString(k)>> >>]
PlainDocument(n) == [k \in 1..n |-> PlainArticle(k)]

\* ------------------------------------------------------------- state
VARIABLES
    defaults,  \* the default argument lists of search_pubmed, made once (line 20)
    pc,        \* where each invocation is
    args,      \* the arguments it was called with (<<>>: argument left out)
    reqs,      \* the requests it has sent, in order
    resps,     \* the outcomes of those requests, in order
    pmids,     \* search_pubmed's local pmids
    fmt,       \* what the await of format_paper_details produced (line 70)
    result,    \* what the invocation gave its caller
    served     \* the articles of the fetch document the remote side sent

vars == <<defaults, pc, args, reqs, resps, pmids, fmt, result, served>>

Invocations == 1..NumCalls
Pending == [pending |-> TRUE]
Unset == [t |-> "unset", v |-> <<>>]

\* The value of a parameter: the argument, or the default object.
Resolve(given, default) == IF given = <<>> THEN default ELSE given[1]

Init ==
    /\ defaults = [title_abstract_keywords |-> <<>>, authors |-> <<>>, num_results |-> 10]
    /\ pc = [i \in Invocations |-> "idle"]
    /\ args = [i \in Invocations |-> <<>>]
    /\ reqs = [i \in Invocations |-> <<>>]
    /\ resps = [i \in Invocations |-> <<>>]
    /\ pmids = [i \in Invocations |-> Unset]
    /\ fmt = [i \in Invocations |-> Pending]
    /\ result = [i \in Invocations |-> Pending]
    /\ served = [i \in Invocations |-> <<>>]

\* Mutant of DefaultsAfterCall: the keywords are appended to the list bound
\* to authors, which is the default object when authors was left out.
DefaultsAfterCallExtending(d, a) ==
    IF a.authors = <<>>
    THEN [d EXCEPT !.authors = @ \o Resolve(a.title_abstract_keywords,
                                           d.title_abstract_keywords)]
    ELSE d

\* The default objects after a call: nothing in lines 38-76 and 99-106
\* appends to, or otherwise changes, a list it was given.
DefaultsAfterCall(d, a) == d

\* search_pubmed is called: lines 37-66, up to the search request being sent.
CallWith(i, choices) ==
    /\ pc[i] = "idle"
    /\ \E a \in choices :
         LET prologue == SearchPrologue(
                 Resolve(a.title_abstract_keywords, defaults.title_abstract_keywords),
                 Resolve(a.authors, defaults.authors),
                 Resolve(a.num_results, defaults.num_results))
         IN  /\ args' = [args EXCEPT ![i] = a]
             /\ defaults' = DefaultsAfterCall(defaults, a)
             /\ IF prologue.returned
                THEN /\ result' = [result EXCEPT ![i] = Return(prologue.envelope)]
                     /\ pc' = [pc EXCEPT ![i] = "done"]
                     /\ reqs' = reqs
                ELSE /\ reqs' = [reqs EXCEPT ![i] = Append(@, prologue.request)]
                     /\ pc' = [pc EXCEPT ![i] = "search"]
                     /\ result' = result
    /\ UNCHANGED <<resps, pmids, fmt, served>>

\* requests.get of line 66 ends; lines 66-70 and 99-105, up to the fetch
\* request being sent.  Whatever is raised on the way reaches line 78.
SearchResponseWith(i, responses) ==
    /\ pc[i] = "search"
    /\ \E which \in DOMAIN responses :
         LET r == responses[which]
             extracted == IF r.ok THEN ExtractPmids(r.body) ELSE Raise(r.error)
             request == IF extracted.raised THEN extracted
                        ELSE FetchRequest(extracted.value)
         IN  /\ resps' = [resps EXCEPT ![i] = Append(@, r)]
             /\ pmids' = [pmids EXCEPT ![i] =
                             IF extracted.raised THEN @ ELSE extracted.value]
             /\ fmt' = [fmt EXCEPT ![i] =
                             IF ~extracted.raised /\ request.raised THEN request ELSE @]
             /\ IF request.raised
                THEN /\ result' = [result EXCEPT ![i] = Return(ExceptEnvelope(request.error))]
                     /\ pc' = [pc EXCEPT ![i] = "done"]
                     /\ reqs' = reqs
                ELSE /\ reqs' = [reqs EXCEPT ![i] = Append(@, request.value)]
                     /\ pc' = [pc EXCEPT ![i] = "fetch"]
                     /\ result' = result
    /\ UNCHANGED <<defaults, args, served>>

\* The answers of efetch.fcgi, given the documents it may send.
FetchResponsesOf(documents) ==
    {[response |-> NetworkError, articles |-> <<>>],
     [response |-> NotXmlBody, articles |-> <<>>]}
    \cup {[response |-> FetchBody(MkDocument(d)), articles |-> d] : d \in documents}

\* requests.get of line 105 ends inside search_pubmed's await: lines 105-106,
\* 108-143, then 72-76 or 78-83.
FetchResponseWith(i, documents) ==
    /\ pc[i] = "fetch"
    /\ \E f \in FetchResponsesOf(documents) :
         LET formatted_results == FormatEpilogue(f.response)
         IN  /\ resps' = [resps EXCEPT ![i] = Append(@, f.response)]
             /\ served' = [served EXCEPT ![i] = f.articles]
             /\ fmt' = [fmt EXCEPT ![i] = formatted_results]
             /\ result' = [result EXCEPT ![i] =
                    IF formatted_results.raised
                    THEN Return(ExceptEnvelope(formatted_results.error))
                    ELSE Return(SuccessEnvelope(formatted_results.value, pmids[i]))]
             /\ pc' = [pc EXCEPT ![i] = "done"]
    /\ UNCHANGED <<defaults, args, reqs, pmids>>

\* The tool format_paper_details is called by the host: lines 99-105, up to
\* the fetch request being sent.  Nothing catches what line 102 raises.
FormatCallWith(i, idlists) ==
    /\ pc[i] = "idle"
    /\ \E which \in DOMAIN idlists :
         LET pubmed_ids == idlists[which]
             request == FetchRequest(pubmed_ids)
         IN  /\ args' = [args EXCEPT ![i] = [pubmed_ids |-> pubmed_ids]]
             /\ IF request.raised
                THEN /\ result' = [result EXCEPT ![i] = request]
                     /\ pc' = [pc EXCEPT ![i] = "done"]
                     /\ reqs' = reqs
                ELSE /\ reqs' = [reqs EXCEPT ![i] = Append(@, request.value)]
                     /\ pc' = [pc EXCEPT ![i] = "tool_fetch"]
                     /\ result' = result
    /\ UNCHANGED <<defaults, resps, pmids, fmt, served>>

\* requests.get of line 105 ends in a call of the tool: lines 105-106 and
\* 108-143; the tool's caller gets the records or the exception.
ToolFetchResponseWith(i, documents) ==
    /\ pc[i] = "tool_fetch"
    /\ \E f \in FetchResponsesOf(documents) :
         /\ resps' = [resps EXCEPT ![i] = Append(@, f.response)]
         /\ served' = [served EXCEPT ![i] = f.articles]
         /\ result' = [result EXCEPT ![i] = FormatEpilogue(f.response)]
         /\ pc' = [pc EXCEPT ![i] = "done"]
    /\ UNCHANGED <<defaults, args, reqs, pmids, fmt>>

\* --------------------------------------------- the concurrent system
\* Any number of invocations of the two tools, interleaved at the points
\* where an invocation waits for a remote endpoint.
Given(x) == <<x>>
Omitted == <<>>
Arguments(k, a, n) == [title_abstract_keywords |-> k, authors |-> a, num_results |-> n]

ArgChoices ==
    {Arguments(Omitted, Omitted, Omitted),
     Arguments(Given(<<"cancer">>), Omitted, Given(1)),
     Arguments(Omitted, Given(<<"Doe JP">>), Omitted)}
ResponseChoices ==
    <<NetworkError, NotJsonBody,
      SearchBody(ESearchResult(IdList(0))), SearchBody(ESearchResult(IdList(1)))>>
DocumentChoices == {PlainDocument(0), PlainDocument(1)}
IdListChoices == <<IdList(1)>>

Call(i) == CallWith(i, ArgChoices)
SearchResponse(i) == SearchResponseWith(i, ResponseChoices)
FetchResponse(i) == FetchResponseWith(i, DocumentChoices)
FormatCall(i) == FormatCallWith(i, IdListChoices)
ToolFetchResponse(i) == ToolFetchResponseWith(i, DocumentChoices)

Next ==
    \E i \in Invocations :
        \/ Call(i)
        \/ SearchResponse(i)
        \/ FetchResponse(i)
        \/ FormatCall(i)
        \/ ToolFetchResponse(i)

Spec == Init /\ [][Next]_vars

\* ------------------------------------------------ one invocation alone
\* One invocation of either tool, over every argument list, every answer of
\* the search endpoint and every fetch document within the bounds.
Keywords == {"cancer", "gene"}
Authors == {"Doe JP", "Smith A"}
ListChoices(S) == {Omitted} \cup {Given(l) : l \in SeqsUpTo(S, MaxTerms)}

AllArgChoices ==
    {Arguments(k, a, n) :
        k \in ListChoices(Keywords), a \in ListChoices(Authors),
        n \in {Omitted, Given(1), Given(2)}}

PlainDocuments == {PlainDocument(n) : n \in 0..MaxArticles}

\* Documents of one article: every choice of which scalar elements it has;
\* every list of authors; and documents of several articles.
ArticleDocuments ==
    {<<ArticleWith(present, <<>>)>> : present \in SUBSET ScalarFields}
    \cup {<<ArticleWith(ScalarFields, as)>> : as \in SeqsUpTo(AuthorChoices, MaxAuthors)}
    \cup SeqsUpTo({ArticleWith(ScalarFields, <<>>), ArticleWith({}, <<>>),
                   EmptyTextArticle}, MaxArticles)

AllIdLists ==
    <<JArray(<<JNull>>), JArray(<<JString("1"), JNull>>)>>
    \o [n \in 1..(MaxIds + 1) |-> IdList(n - 1)]

OneCall == CallWith(1, AllArgChoices)
OneSearchResponse == SearchResponseWith(1, SearchResponses)
OneFetchResponse == FetchResponseWith(1, PlainDocuments)
OneFormatCall == FormatCallWith(1, AllIdLists)
OneToolFetchResponse == ToolFetchResponseWith(1, ArticleDocuments)

OneNext ==
    \/ OneCall
    \/ OneSearchResponse
    \/ OneFetchResponse
    \/ OneFormatCall
    \/ OneToolFetchResponse

OneSpec == Init /\ [][OneNext]_vars

\* ------------------------------------------------------------ claims
\* Invocation i is a call of search_pubmed / of the tool format_paper_details.
IsSearch(i) == "authors" \in DOMAIN args[i]
IsFormat(i) == "pubmed_ids" \in DOMAIN args[i]

\* The arguments search_pubmed runs with, the omitted ones being [], [] and 10.
KeywordsOf(i) == IF args[i].title_abstract_keywords = <<>> THEN <<>>
                 ELSE args[i].title_abstract_keywords[1]
AuthorsOf(i) == IF args[i].authors = <<>> THEN <<>> ELSE args[i].authors[1]
NumResultsOf(i) == IF args[i].num_results = <<>> THEN 10 ELSE args[i].num_results[1]

\* C1: a call of search_pubmed with no keywords and no authors, whatever
\* num_results, has returned the failure envelope with the "no search
\* parameters" error and empty results, and has sent no request.
C1_NoParameters ==
    \A i \in Invocations :
        (IsSearch(i) /\ KeywordsOf(i) = <<>> /\ AuthorsOf(i) = <<>>) =>
            /\ pc[i] = "done"
            /\ result[i] = [raised |-> FALSE, value |->
                   [success |-> FALSE,
                    error |-> "No search parameters provided. Please specify authors or keywords.",
                    results |-> <<>>]]
            /\ reqs[i] = <<>>
            /\ resps[i] = <<>>

C1_Witness ==
    /\ IsSearch(1) /\ pc[1] = "done" /\ reqs[1] = <<>>
    /\ args[1].title_abstract_keywords = <<<<>>>>
    /\ args[1].authors = <<>>
    /\ args[1].num_results = <<2>>
    /\ result[1].value.success = FALSE

\* The clause of C2: the terms, each with its tag, joined by OR in input
\* order, in parentheses.
RECURSIVE OrOfTagged(_, _)
OrOfTagged(terms, tag) ==
    IF Len(terms) = 1 THEN terms[1] \o tag
    ELSE OrOfTagged(SubSeq(terms, 1, Len(terms) - 1), tag)
         \o " OR " \o terms[Len(terms)] \o tag
ClauseOf(terms, tag) == "(" \o OrOfTagged(terms, tag) \o ")"
ExpectedQuery(keywords, authors) ==
    IF authors # <<>> /\ keywords # <<>>
    THEN ClauseOf(authors, "[Author]") \o " AND " \o ClauseOf(keywords, "[Title/Abstract]")
    ELSE IF authors # <<>> THEN ClauseOf(authors, "[Author]")
    ELSE ClauseOf(keywords, "[Title/Abstract]")

\* C2: when keywords and authors are not both empty, the term of the search
\* request is the author clause (if any) then the keyword clause (if any),
\* joined by AND; the two examples of the specification come out as written.
C2_QueryShape ==
    \A i \in Invocations :
        (IsSearch(i) /\ ~(KeywordsOf(i) = <<>> /\ AuthorsOf(i) = <<>>)) =>
            /\ Len(reqs[i]) >= 1
            /\ reqs[i][1].params.term = ExpectedQuery(KeywordsOf(i), AuthorsOf(i))
            /\ (KeywordsOf(i) = <<"cancer">> /\ AuthorsOf(i) = <<"Doe JP">>) =>
                   reqs[i][1].params.term = "(Doe JP[Author]) AND (cancer[Title/Abstract])"
            /\ (KeywordsOf(i) = <<>> /\ AuthorsOf(i) = <<"Doe JP", "Smith A">>) =>
                   reqs[i][1].params.term = "(Doe JP[Author] OR Smith A[Author])"

C2_Witness ==
    /\ IsSearch(1)
    /\ KeywordsOf(1) = <<"gene", "cancer">> /\ AuthorsOf(1) = <<"Doe JP", "Smith A">>
    /\ Len(reqs[1]) = 1
    /\ reqs[1][1].params.term =
         "(Doe JP[Author] OR Smith A[Author]) AND (gene[Title/Abstract] OR cancer[Title/Abstract])"

\* C3: a call of search_pubmed that has ended, whatever the two endpoints
\* answered, returned (no exception left it) one of two envelopes: success
\* with results and total_results, or failure with empty results and a
\* non-empty error; and a call that has not ended is never stuck: every
\* outcome of the request it waits for lets it go on.
C3_Envelope ==
    \A i \in Invocations :
        IsSearch(i) =>
            /\ pc[i] \in {"search", "fetch", "done"}
            /\ pc[i] = "search" => ENABLED SearchResponseWith(i, SearchResponses)
            /\ pc[i] = "fetch" => ENABLED FetchResponseWith(i, PlainDocuments)
            /\ pc[i] = "done" =>
                 /\ ~result[i].raised
                 /\ LET e == result[i].value
                    IN  \/ /\ DOMAIN e = {"success", "results", "total_results"}
                           /\ e.success = TRUE
                        \/ /\ DOMAIN e = {"success", "error", "results"}
                           /\ e.success = FALSE
                           /\ e.results = <<>>
                           /\ e.error # ""

C3_Witness ==
    /\ IsSearch(1) /\ pc[1] = "done" /\ Len(resps[1]) = 2
    /\ resps[1][2].ok /\ ~resps[1][2].content.xml
    /\ result[1] = [raised |-> FALSE, value |->
           [success |-> FALSE, error |-> "syntax error: line 1, column 0", results |-> <<>>]]

ESEARCH == "https://eutils.ncbi.nlm.nih.gov/entrez/eutils/esearch.fcgi"
EFETCH == "https://eutils.ncbi.nlm.nih.gov/entrez/eutils/efetch.fcgi"

\* C4: a call of search_pubmed sends at most one search request and then at
\* most one fetch request; never more than one request is unanswered; the
\* fetch request is sent only once the search answer has come, has been
\* decoded and pmids extracted; none is sent if the search request or its
\* decoding failed.
C4_Sequential ==
    \A i \in Invocations :
        IsSearch(i) =>
            /\ Len(reqs[i]) <= 2
            /\ \A k \in 1..Len(reqs[i]) :
                   reqs[i][k].url = IF k = 1 THEN ESEARCH ELSE EFETCH
            /\ Len(resps[i]) <= Len(reqs[i])
            /\ Len(reqs[i]) - Len(resps[i]) <= 1
            /\ Len(reqs[i]) = 2 =>
                 /\ Len(resps[i]) >= 1
                 /\ resps[i][1].ok /\ resps[i][1].body.json
                 /\ pmids[i].t = "list"
            /\ (Len(resps[i]) >= 1 /\ (~resps[i][1].ok \/ ~resps[i][1].body.json)) =>
                 /\ Len(reqs[i]) = 1
                 /\ pc[i] = "done"

C4_Witness ==
    /\ IsSearch(1) /\ pc[1] = "fetch"
    /\ Len(reqs[1]) = 2 /\ Len(resps[1]) = 1
    /\ reqs[1][2].params.id = "1,2"

\* The number of identifiers in the search endpoint's answer.
IdCountOf(response) ==
    LET top == response.body.value.v
    IN  IF "esearchresult" \notin DOMAIN top THEN 0
        ELSE IF "idlist" \notin DOMAIN top.esearchresult.v THEN 0
        ELSE Len(top.esearchresult.v.idlist.v)

\* C5: in a success envelope total_results is the number of identifiers
\* the search endpoint answered with, and results holds one record per
\* PubmedArticle of the fetch document, in document order, none made up
\* for an identifier without an article.
C5_Counts ==
    \A i \in Invocations :
        (IsSearch(i) /\ pc[i] = "done" /\ result[i].value.success) =>
            LET e == result[i].value
            IN  /\ e.total_results = IdCountOf(resps[i][1])
                /\ Len(e.results) = Len(served[i])
                /\ \A k \in 1..Len(served[i]) :
                       e.results[k].pubmed_id = Str(served[i][k].pmid[1])

C5_Witness ==
    /\ IsSearch(1) /\ pc[1] = "done" /\ result[1].value.success
    /\ IdCountOf(resps[1][1]) = 3
    /\ Len(served[1]) = 2
    /\ Len(result[1].value.results) = 2
    /\ result[1].value.results[2].pubmed_id = "2"
    /\ result[1].value.total_results = 3

\* C6: the identifier list handed to the fetch step is no longer than
\* num_results, and so is total_results of a success envelope.
C6_CapRespected ==
    \A i \in Invocations :
        IsSearch(i) =>
            /\ pmids[i].t = "list" => Len(pmids[i].v) <= NumResultsOf(i)
            /\ (pc[i] = "done" /\ result[i].value.success) =>
                   result[i].value.total_results <= NumResultsOf(i)

\* The records a finished invocation got from a fetch document.
FetchAnswerOf(i) == resps[i][Len(resps[i])]
RecordsOf(i) == IF IsFormat(i) THEN result[i].value ELSE result[i].value.results
ParsedDocument(i) ==
    /\ pc[i] = "done"
    /\ Len(resps[i]) = (IF IsFormat(i) THEN 1 ELSE 2)
    /\ FetchAnswerOf(i).ok
    /\ FetchAnswerOf(i).content.xml

RecordFields == {"pubmed_id", "link", "title", "authors", "source", "volume",
                 "issue", "pages", "doi", "pubdate", "abstract"}
\* The value C7 gives a scalar field: the element's text, or the marker.
MarkerOr(o) == IF o = <<>> THEN "N/A" ELSE Str(o[1])
TextOr(o) == IF o = <<>> THEN "" ELSE Str(o[1])
NameOf(a) ==
    IF TextOr(a.last) = "" THEN TextOr(a.init)
    ELSE IF TextOr(a.init) = "" THEN TextOr(a.last)
    ELSE TextOr(a.last) \o " " \o TextOr(a.init)

\* C7: every record made from a well-formed fetch document has the eleven
\* fields; a scalar field whose element is absent is "N/A", whatever the
\* other elements; link is the base URL followed by the id, also when the
\* id is "N/A"; authors has one entry per Author element, in order, the
\* empty string when neither LastName nor Initials is there.
C7_Records ==
    \A i \in Invocations :
        ParsedDocument(i) =>
            /\ Len(RecordsOf(i)) = Len(served[i])
            /\ \A k \in 1..Len(served[i]) :
                 LET r == RecordsOf(i)[k]
                     o == served[i][k]
                 IN  /\ DOMAIN r = RecordFields
                     /\ r.pubmed_id = MarkerOr(o.pmid)
                     /\ r.title = MarkerOr(o.title)
                     /\ r.source = MarkerOr(o.journal)
                     /\ r.volume = MarkerOr(o.volume)
                     /\ r.issue = MarkerOr(o.issue)
                     /\ r.pages = MarkerOr(o.pages)
                     /\ r.doi = MarkerOr(o.doi)
                     /\ r.pubdate = MarkerOr(o.year)
                     /\ r.abstract = MarkerOr(o.abstract)
                     /\ r.link = "https://pubmed.ncbi.nlm.nih.gov/" \o r.pubmed_id
                     /\ o.pmid = <<>> => r.link = "https://pubmed.ncbi.nlm.nih.gov/N/A"
                     /\ Len(r.authors) = Len(o.authors)
                     /\ \A n \in 1..Len(o.authors) : r.authors[n] = NameOf(o.authors[n])

C7_Witness ==
    /\ IsFormat(1) /\ ParsedDocument(1)
    /\ Len(served[1]) = 1
    /\ served[1][1].abstract = <<>> /\ served[1][1].pmid = <<>>
    /\ served[1][1].title # <<>> /\ served[1][1].year # <<>>
    /\ result[1].value[1].abstract = "N/A"
    /\ result[1].value[1].link = "https://pubmed.ncbi.nlm.nih.gov/N/A"
    /\ result[1].value[1].title = "T"
    /\ result[1].value[1].pubdate = "20"

\* The fetch step of a finished invocation failed: str.join raised, the
\* fetch request failed, or its answer was not XML.
FetchFailed(i) ==
    \/ Len(resps[i]) = (IF IsFormat(i) THEN 0 ELSE 1)
    \/ ~FetchAnswerOf(i).ok
    \/ ~FetchAnswerOf(i).content.xml

\* C8: a call of the tool format_paper_details whose fetch request fails or
\* whose fetch answer is not XML ends with the exception at its caller and
\* no records; inside search_pubmed the same exception is what the failure
\* envelope is made from.
C8_Transparent ==
    \A i \in Invocations :
        /\ (IsFormat(i) /\ pc[i] = "done") =>
             IF FetchFailed(i)
             THEN /\ result[i].raised
                  /\ DOMAIN result[i] = {"raised", "error"}
                  /\ result[i].error # ""
                  /\ (Len(resps[i]) = 1 /\ ~resps[i][1].ok) =>
                         result[i].error = resps[i][1].error
             ELSE ~result[i].raised
        /\ (IsSearch(i) /\ pc[i] = "done" /\ Len(resps[i]) = 2 /\ FetchFailed(i)) =>
             /\ fmt[i].raised
             /\ DOMAIN fmt[i] = {"raised", "error"}
             /\ result[i] = [raised |-> FALSE, value |->
                    [success |-> FALSE, error |-> fmt[i].error, results |-> <<>>]]

C8_Witness ==
    /\ IsFormat(1) /\ pc[1] = "done" /\ Len(resps[1]) = 1
    /\ resps[1][1].ok /\ ~resps[1][1].content.xml
    /\ result[1] = [raised |-> TRUE, error |-> "syntax error: line 1, column 0"]

\* The search answer is a JSON object whose identifier list is empty or
\* not there.
NoIdentifiers(response) ==
    /\ response.ok /\ response.body.json
    /\ LET top == response.body.value
       IN  /\ top.t = "dict"
           /\ \/ "esearchresult" \notin DOMAIN top.v
              \/ /\ top.v.esearchresult.t = "dict"
                 /\ \/ "idlist" \notin DOMAIN top.v.esearchresult.v
                    \/ /\ top.v.esearchresult.v.idlist.t = "list"
                       /\ Len(top.v.esearchresult.v.idlist.v) = 0

\* C10: when the search answer has an empty identifier list, or none, the
\* call does not fail at the search step and does not return early: it
\* sends exactly one fetch request, with an empty id parameter, and the
\* envelope is decided by the fetch answer.
C10_EmptyIdList ==
    \A i \in Invocations :
        (IsSearch(i) /\ Len(resps[i]) >= 1 /\ NoIdentifiers(resps[i][1])) =>
            /\ Len(reqs[i]) = 2
            /\ reqs[i][2].url = EFETCH
            /\ reqs[i][2].params.id = ""
            /\ pc[i] \in {"fetch", "done"}
            /\ pc[i] = "fetch" => Len(resps[i]) = 1
            /\ pc[i] = "done" =>
                 /\ Len(resps[i]) = 2
                 /\ IF resps[i][2].ok /\ resps[i][2].content.xml
                    THEN /\ result[i].value.success
                         /\ result[i].value.total_results = 0
                         /\ Len(result[i].value.results) = Len(served[i])
                    ELSE /\ ~result[i].value.success
                         /\ result[i].value.results = <<>>

C10_Witness ==
    /\ IsSearch(1) /\ pc[1] = "done" /\ Len(resps[1]) = 2
    /\ resps[1][1].ok /\ resps[1][1].body.json
    /\ "esearchresult" \in DOMAIN resps[1][1].body.value.v
    /\ "idlist" \notin DOMAIN resps[1][1].body.value.v.esearchresult.v
    /\ reqs[1][2].params.id = ""
    /\ result[1].value.success /\ result[1].value.total_results = 0

\* What a call of search_pubmed with arguments a does when it runs alone
\* and its requests are answered by rs: where it is, what it has sent and
\* what it has returned.
AloneSearch(a, rs) ==
    LET prologue == SearchPrologue(Resolve(a.title_abstract_keywords, <<>>),
                                   Resolve(a.authors, <<>>),
                                   Resolve(a.num_results, 10))
        extracted == IF rs[1].ok THEN ExtractPmids(rs[1].body) ELSE Raise(rs[1].error)
        request == IF extracted.raised THEN extracted ELSE FetchRequest(extracted.value)
        formatted == FormatEpilogue(rs[2])
    IN  IF prologue.returned
        THEN [pc |-> "done", reqs |-> <<>>, result |-> Return(prologue.envelope)]
        ELSE IF rs = <<>>
        THEN [pc |-> "search", reqs |-> <<prologue.request>>, result |-> Pending]
        ELSE IF request.raised
        THEN [pc |-> "done", reqs |-> <<prologue.request>>,
              result |-> Return(ExceptEnvelope(request.error))]
        ELSE IF Len(rs) = 1
        THEN [pc |-> "fetch", reqs |-> <<prologue.request, request.value>>,
              result |-> Pending]
        ELSE [pc |-> "done", reqs |-> <<prologue.request, request.value>>,
              result |-> IF formatted.raised
                         THEN Return(ExceptEnvelope(formatted.error))
                         ELSE Return(SuccessEnvelope(formatted.value, extracted.value))]

\* A step is a step of one invocation: it leaves every other one as it was.
OneInvocationMoves ==
    \E i \in Invocations :
        \A j \in Invocations \ {i} :
            /\ pc'[j] = pc[j] /\ args'[j] = args[j]
            /\ reqs'[j] = reqs[j] /\ resps'[j] = resps[j]
            /\ pmids'[j] = pmids[j] /\ fmt'[j] = fmt[j]
            /\ result'[j] = result[j] /\ served'[j] = served[j]

====
